---- MODULE Spec2Model ----
(***************************************************************************)
(* Vayu-Otel: request tracing middleware, span wrapper and provider        *)
(* shutdown, as a state machine.                                           *)
(*                                                                         *)
(* The wrapper code (Start, AddAttributes, AddEvent, RecordError, End,     *)
(* Context, Middleware, Provider.Shutdown) is translated from the Go       *)
(* source.  The OpenTelemetry SDK it calls into (spans, the batch span     *)
(* processor, TracerProvider.Shutdown) is not part of the repository; its  *)
(* operators are prefixed Sdk and follow the contract the specification    *)
(* text gives for the "span", "batch processor" and "exporter"             *)
(* abstractions.                                                           *)
(*                                                                         *)
(* Several views of the same state machine are checked:                    *)
(*   Spec          requests through the middleware, handlers starting and  *)
(*                 ending spans, the batch flushes;                        *)
(*   SpecWrapper   one request whose handler uses every wrapper method;    *)
(*   SpecAttrs     one request whose handler sets attributes on its spans; *)
(*   SpecShutdown  requests followed by Provider.Shutdown calls            *)
(*                 (FairShutdown adds the firing of the deadline timer);   *)
(*   SpecSetup     Setup, NewProvider and GetTracer calls from process     *)
(*                 start, and spans started on the tracers obtained;       *)
(*   SpecStore     set operations on the typed context store.              *)
(***************************************************************************)
EXTENDS Integers, Sequences, FiniteSets, TLC

\* ---------------------------------------------------------------- bounds
MaxReqs == 2        \* concurrent requests
MaxSpans == 3       \* SDK spans created in one run
MaxEvents == 1      \* events per span
BatchSize == 2      \* Config.BatchSize, scaled down
MaxShutdowns == 2   \* Shutdown calls in one run
MaxCalls == 2       \* Setup / NewProvider calls in one run
MaxStoreOps == 3    \* set operations on one context store

\* ------------------------------------------------------ program constants
responseStatus == 200

tracerNameValue == "vayu-http"

VARIABLES
    spans,      \* SDK spans, indexed by creation order
    req,        \* per request: middleware position, context, response
    wrappers,   \* per request: the *Span wrappers its handler holds
    buffer,     \* batch span processor: ended spans not yet exported
    exported,   \* spans handed to the exporter, in order
    shut,       \* Shutdown calls made so far, with their results
    tp,         \* Provider.TracerProvider: "live" or "shutdown"
    exporterUp, \* whether the exporter responds
    global,     \* the process-wide tracer provider (otel.SetTracerProvider)
    calls,      \* Setup / NewProvider calls made so far, with what they returned
    tracers,    \* tracers obtained through Integration.GetTracer
    tspans,     \* spans started directly on those tracers
    store,      \* the typed context store of one request
    storeLog,   \* the set operations applied to the store, in order
    lastAdd     \* the latest AddAttributes call: receiver, argument, result

setupVars == <<global, calls, tracers, tspans>>

storeVars == <<store, storeLog>>

vars == <<spans, req, wrappers, buffer, exported, shut, tp, exporterUp, setupVars, storeVars, lastAdd>>

Requests == 1..MaxReqs

\* ------------------------------------------------------------ identifiers
ZeroID == <<"zero", 0>>
SpanID(i) == <<"span", i>>
NewTraceID(i) == <<"trace", i>>
RemoteTraceID == <<"remote-trace", 1>>
RemoteSpanID == <<"remote-span", 1>>

\* span references a context or a wrapper can hold
NoopSpan == <<"noop", 0>>
LocalSpan(i) == <<"sdk", i>>
RemoteSpan == <<"remote", 1>>

IsLocal(ref) == ref[1] = "sdk"

\* -------------------------------------------------------------- contexts
NoValue == "<nil>"

Background == [cur |-> NoopSpan, name |-> NoValue]

NameOnly == [cur |-> NoopSpan, name |-> tracerNameValue]

ContextWithSpan(ctx, ref) == [ctx EXCEPT !.cur = ref]

WithTracerName(ctx) == [ctx EXCEPT !.name = tracerNameValue]

Headers == {"absent", "valid", "malformed"}

\* a middleware that does not read the inbound headers
ExtractNothing(ctx, h) == ctx

\* propagation.TraceContext{}.Extract: a valid traceparent header puts the
\* remote span context in the context, anything else leaves it unchanged
Extract(ctx, h) == IF h = "valid" THEN ContextWithSpan(ctx, RemoteSpan) ELSE ctx

\* trace.SpanContextFromContext
SpanContextOf(S, ref) ==
    IF IsLocal(ref) THEN [trace |-> S[ref[2]].trace, span |-> SpanID(ref[2])]
    ELSE IF ref = RemoteSpan THEN [trace |-> RemoteTraceID, span |-> RemoteSpanID]
    ELSE [trace |-> ZeroID, span |-> ZeroID]

\* ------------------------------------------------------------ attributes
UserKeys == {"k", "u"}

Absent == <<"absent", "">>

Supported == {"string", "int", "int64", "float64", "bool", "time.Time"}

AttrMaps ==
    { [k \in UserKeys |-> v] : v \in {<<"string", "v1">>, <<"[]string", "x">>} }

\* the values of the maps handlers pass to AddAttributes
AttrValues ==
    {<<"string", "v1">>, <<"string", "v2">>, <<"int", "7">>, <<"[]string", "x">>}

AttrInputs == [UserKeys -> AttrValues]

ConvertValue(v) ==
    IF v[1] = "string" THEN <<"STRING", v[2]>>
    ELSE IF v[1] = "int" THEN <<"INT64", v[2]>>
    ELSE IF v[1] = "int64" THEN <<"INT64", v[2]>>
    ELSE IF v[1] = "float64" THEN <<"FLOAT64", v[2]>>
    ELSE IF v[1] = "bool" THEN <<"BOOL", v[2]>>
    ELSE IF v[1] = "time.Time" THEN <<"INT64", <<"UnixNano", v[2]>>>>
    ELSE Absent

\* a conversion that gives up on the first unsupported value
convertAllOrNothing(m) ==
    IF \E k \in UserKeys : ConvertValue(m[k]) = Absent
    THEN [k \in UserKeys |-> Absent]
    ELSE [k \in UserKeys |-> ConvertValue(m[k])]

convertToAttributes(m) == [k \in UserKeys |-> ConvertValue(m[k])]

\* before the first AddAttributes call
NoCall == [op |-> "none"]

\* ------------------------------------------------------------- SDK spans
SdkStart(S, ctx, id) ==
    LET psc == SpanContextOf(S, ctx.cur) IN
    [ trace   |-> IF psc.trace = ZeroID THEN NewTraceID(id) ELSE psc.trace,
      parent  |-> psc.span,
      ended   |-> FALSE,
      status  |-> "unset",
      desc    |-> "",
      code    |-> 0,
      errAttr |-> FALSE,
      scheme  |-> NoValue,
      attrs   |-> [k \in UserKeys |-> Absent],
      events  |-> <<>> ]

\* a merge in which the value that is already there stays
SdkSetAttributesKeepFirst(s, attrs) ==
    IF s.ended THEN s
    ELSE [s EXCEPT !.attrs = [k \in UserKeys |-> IF s.attrs[k] = Absent THEN attrs[k] ELSE s.attrs[k]]]

SdkSetAttributes(s, attrs) ==
    IF s.ended THEN s
    ELSE [s EXCEPT !.attrs = [k \in UserKeys |-> IF attrs[k] = Absent THEN s.attrs[k] ELSE attrs[k]]]

\* the http.* attributes the middleware sets on the root span
SdkSetHttpAttrs(s, scheme) == IF s.ended THEN s ELSE [s EXCEPT !.scheme = scheme]

SdkSetStatusCode(s, c) == IF s.ended THEN s ELSE [s EXCEPT !.code = c]

SdkSetErrorAttr(s) == IF s.ended THEN s ELSE [s EXCEPT !.errAttr = TRUE]

SdkSetStatus(s, st, d) == IF s.ended THEN s ELSE [s EXCEPT !.status = st, !.desc = d]

SdkAddEvent(s, name) == IF s.ended THEN s ELSE [s EXCEPT !.events = Append(@, name)]

SdkRecordError(s, err) ==
    IF s.ended \/ err = NoValue THEN s ELSE [s EXCEPT !.events = Append(@, "exception")]

\* span.End(): the first call marks the span ended and hands a snapshot to
\* the batch span processor, later calls do nothing
SdkEnd(S, i) ==
    IF S[i].ended
    THEN /\ spans' = S
         /\ UNCHANGED buffer
    ELSE /\ spans' = [S EXCEPT ![i].ended = TRUE]
         /\ buffer' = IF tp = "live"
                        THEN Append(buffer, [id |-> i, span |-> [S[i] EXCEPT !.ended = TRUE]])
                        ELSE buffer

\* --------------------------------------------------- typed context store
StoreKeys == {"trace_id", "span_id"}

\* the keys StoreSpan writes
SpanKey == "otel.span"

TraceIDKey == "otel.trace_id"

SpanIDKey == "otel.span_id"

OtelKeys == {SpanKey, TraceIDKey, SpanIDKey}

Partitions == {"string", "int", "float", "bool", "slice", "opaque"}

\* the values a caller stores, per partition; the first is Go's zero value
StoreValuesOf(t) ==
    CASE t = "string" -> {"", "abc"}
      [] t = "int"    -> {0, 7}
      [] t = "float"  -> {<<"float", 0>>, <<"float", 15>>}
      [] t = "bool"   -> {FALSE, TRUE}
      [] t = "slice"  -> {<<>>, <<"a">>}
      [] t = "opaque" -> {<<"nil">>, <<"span">>}

ZeroOf(t) ==
    CASE t = "string" -> ""
      [] t = "int"    -> 0
      [] t = "float"  -> <<"float", 0>>
      [] t = "bool"   -> FALSE
      [] t = "slice"  -> <<>>
      [] t = "opaque" -> <<"nil">>

\* a Go map: the keys present and their values
EmptyMap == [present |-> {}, val |-> [k \in StoreKeys \cup OtelKeys |-> <<"none">>]]

\* NewMockContext: one empty map per partition
NewMockContext == [t \in Partitions |-> EmptyMap]

\* a map that keeps the first value stored for a key
MapPutKeepFirst(m, k, v) ==
    IF k \in m.present THEN m
    ELSE [present |-> m.present \cup {k}, val |-> [m.val EXCEPT ![k] = v]]

\* m[key] = value
MapPut(m, k, v) == [present |-> m.present \cup {k}, val |-> [m.val EXCEPT ![k] = v]]

\* m[key], the zero value for a key that is not present
MapGet(m, k, zero) == IF k \in m.present THEN m.val[k] ELSE zero

\* SetString / SetInt / SetFloat / SetBool / SetStringSlice / SetValue
StoreSet(st, t, k, v) == [st EXCEPT ![t] = MapPut(@, k, v)]

\* GetString / GetInt / GetFloat / GetBool / GetStringSlice
StoreGet(st, t, k) == MapGet(st[t], k, ZeroOf(t))

\* GetValue: value, exists := c.Values[key]
GetValue(st, k) == <<MapGet(st["opaque"], k, ZeroOf("opaque")), k \in st["opaque"].present>>

\* SpanContext.IsValid: a non-zero trace id and a non-zero span id
IsValid(sc) == sc.trace # ZeroID /\ sc.span # ZeroID

\* TraceID.String / SpanID.String: the identifier written out
IDString(id) == id[1] \o "-" \o ToString(id[2])

\* StoreSpan on a context that has SetString: the span under SpanKey, and
\* the identifier strings if the span context is valid
StoreSpan(st, S, ref) ==
    LET sc == SpanContextOf(S, ref)
        st1 == StoreSet(st, "opaque", SpanKey, ref)
    IN  IF IsValid(sc)
        THEN StoreSet(StoreSet(st1, "string", TraceIDKey, IDString(sc.trace)),
                      "string", SpanIDKey, IDString(sc.span))
        ELSE st1

\* GetTraceSpan: the value under SpanKey, if there is one and it is a span
GetTraceSpan(st) ==
    LET v == GetValue(st, SpanKey)
    IN  IF v[2] /\ v[1][1] \in {"sdk", "remote", "noop"}
        THEN <<v[1], TRUE>> ELSE <<ZeroOf("opaque"), FALSE>>

GetTraceID(st) == StoreGet(st, "string", TraceIDKey)

GetSpanID(st) == StoreGet(st, "string", SpanIDKey)

Init ==
    /\ spans = <<>>
    /\ req = [r \in Requests |->
                [pc |-> "Idle", header |-> "absent", tls |-> FALSE, proto |-> "",
                 ctx |-> Background,
                 root |-> 0, resp |-> 0, fault |-> "none", faultOn |-> NoopSpan,
                 mwEnds |-> 0]]
    /\ wrappers = [r \in Requests |-> {}]
    /\ buffer = <<>>
    /\ exported = <<>>
    /\ shut = <<>>
    /\ tp = "live"
    /\ exporterUp \in BOOLEAN
    /\ global = "sdk"
    /\ calls = <<>>
    /\ tracers = {}
    /\ tspans = {}
    /\ store = NewMockContext
    /\ storeLog = <<>>
    /\ lastAdd = NoCall

\* ------------------------------------------------------------ middleware
\* c.Request = c.Request.WithContext(ctx)
MwRequestCtxKept(old, ctx) == old

MwRequestCtx(old, ctx) == ctx

\* the status the middleware reads after next() returned
ResponseStatusOf(resp) == responseStatus

\* a middleware that leaves the status out
MwFinalizeSkipped(s, resp) == s

\* lines after next(): status-code attribute, error status for >= 500
MwFinalize(s, resp) ==
    LET st == ResponseStatusOf(resp)
        s1 == SdkSetStatusCode(s, st)
    IN  IF st >= 500
        THEN SdkSetStatus(SdkSetErrorAttr(s1), "error", "Error: HTTP")
        ELSE s1

\* the deferred span.End(): runs when the middleware function returns and
\* when a panic unwinds through it
MwExitNoDefer(r, S, cause, on) ==
    /\ IF cause = "none"
       THEN SdkEnd(S, req[r].root)
       ELSE spans' = S /\ UNCHANGED buffer
    /\ req' = [req EXCEPT ![r].pc = "Ended", ![r].fault = cause, ![r].faultOn = on,
                          ![r].mwEnds = IF cause = "none" THEN @ + 1 ELSE @]

\* a middleware that recovers from the panic and returns normally
MwExitRecovered(r, S, cause, on) ==
    /\ SdkEnd(S, req[r].root)
    /\ req' = [req EXCEPT ![r].pc = "Ended", ![r].fault = "none", ![r].faultOn = NoopSpan,
                          ![r].mwEnds = @ + 1]

MwExit(r, S, cause, on) ==
    /\ SdkEnd(S, req[r].root)
    /\ req' = [req EXCEPT ![r].pc = "Ended", ![r].fault = cause, ![r].faultOn = on,
                          ![r].mwEnds = @ + 1]

\* values of the X-Forwarded-Proto request header ("" when it is not sent)
Protos == {"", "https", "ws"}

\* a helper that trusts the forwarded-proto header before the TLS state
getSchemeHeaderFirst(tls, proto) ==
    IF proto # "" THEN proto
    ELSE IF tls THEN "https"
    ELSE "http"

\* getScheme(r): tls is r.TLS != nil, proto is r.Header.Get("X-Forwarded-Proto")
getScheme(tls, proto) ==
    IF tls THEN "https"
    ELSE IF proto # "" THEN proto
    ELSE "http"

\* entry of the middleware function up to the call of next(), for a request
\* with traceparent header h, TLS state tls and forwarded-proto header proto
MwEnterReq(r, h, tls, proto) ==
    /\ req[r].pc = "Idle"
    /\ \A q \in Requests : q < r => req[q].pc # "Idle"   \* requests are numbered as they arrive
    /\ tp = "live"
    /\ Len(spans) < MaxSpans
    /\ LET id   == Len(spans) + 1
           ctx0 == Extract(req[r].ctx, h)
           ctx1 == ContextWithSpan(ctx0, LocalSpan(id))
           ctx2 == WithTracerName(ctx1)
       IN  /\ spans' = Append(spans, SdkSetHttpAttrs(SdkStart(spans, ctx0, id),
                                                     getScheme(tls, proto)))
           /\ req' = [req EXCEPT ![r].pc = "HandlerInvoked", ![r].header = h,
                                 ![r].tls = tls, ![r].proto = proto,
                                 ![r].root = id,
                                 ![r].ctx = MwRequestCtx(req[r].ctx, ctx2)]
    /\ UNCHANGED <<wrappers, buffer, exported, shut, tp, exporterUp, setupVars, storeVars, lastAdd>>

\* the same for a plain-HTTP request without forwarded-proto header
MwEnter(r, h) == MwEnterReq(r, h, FALSE, "")

\* next() returns normally
HandlerReturn(r) ==
    /\ req[r].pc = "HandlerInvoked"
    /\ MwExit(r, [spans EXCEPT ![req[r].root] = MwFinalize(@, req[r].resp)], "none", NoopSpan)
    /\ UNCHANGED <<wrappers, exported, shut, tp, exporterUp, setupVars, storeVars, lastAdd>>

\* next() panics
HandlerPanic(r) ==
    /\ req[r].pc = "HandlerInvoked"
    /\ MwExit(r, spans, "handler", NoopSpan)
    /\ UNCHANGED <<wrappers, exported, shut, tp, exporterUp, setupVars, storeVars, lastAdd>>

\* the handler writes its response (c.JSON(status, ...))
StatusCodes == {200, 503}

HandlerWrite(r, code) ==
    /\ req[r].pc = "HandlerInvoked"
    /\ req[r].resp = 0
    /\ req' = [req EXCEPT ![r].resp = code]
    /\ UNCHANGED <<spans, wrappers, buffer, exported, shut, tp, exporterUp, setupVars, storeVars, lastAdd>>

\* ---------------------------------------------------------- span wrapper
\* tracerName := ctx.Value(tracerNameKey).(string)
StartPanics(ctx) == ctx.name = NoValue

\* currentSpan.TracerProvider(): the SDK provider for an SDK span, the
\* no-op provider for the no-op span SpanFromContext returns otherwise
TracerProviderOf(ctx) == IF IsLocal(ctx.cur) THEN "sdk" ELSE "noop"

\* the context a wrapper keeps: the one tracer.Start returned
WrapperCtxOfCaller(ctx, newCtx) == ctx

WrapperCtx(ctx, newCtx) == newCtx

\* a wrapper that hands back the context its Start call was given
ContextOfCaller(w) == w.from

Context(w) == w.ctx

\* the contexts a handler has at hand
HandlerCtxs(r) == {req[r].ctx, Background, NameOnly} \cup {Context(w) : w \in wrappers[r]}

\* a Start that takes the parent from a process-wide "current span" (the
\* span created last) instead of from the context it is given
StartOnLatest(r, ctx) ==
    /\ req[r].pc = "HandlerInvoked"
    /\ ctx \in HandlerCtxs(r)
    /\ IF StartPanics(ctx)
       THEN /\ MwExit(r, spans, "Start", ctx.cur)
            /\ UNCHANGED wrappers
       ELSE IF TracerProviderOf(ctx) = "sdk"
       THEN /\ tp = "live"
            /\ Len(spans) < MaxSpans
            /\ LET id == Len(spans) + 1
                   cur == ContextWithSpan(ctx, LocalSpan(Len(spans)))
                   newCtx == ContextWithSpan(ctx, LocalSpan(id))
               IN  /\ spans' = Append(spans, SdkStart(spans, cur, id))
                   /\ wrappers' = [wrappers EXCEPT ![r] = @ \cup
                         {[span |-> LocalSpan(id), ctx |-> WrapperCtx(ctx, newCtx), from |-> ctx]}]
            /\ UNCHANGED <<req, buffer>>
       ELSE /\ wrappers' = [wrappers EXCEPT ![r] = @ \cup
                  {[span |-> NoopSpan,
                    ctx |-> WrapperCtx(ctx, ContextWithSpan(ctx, NoopSpan)),
                    from |-> ctx]}]
            /\ UNCHANGED <<spans, req, buffer>>
    /\ UNCHANGED <<exported, shut, tp, exporterUp, setupVars, storeVars, lastAdd>>

Start(r, ctx) ==
    /\ req[r].pc = "HandlerInvoked"
    /\ ctx \in HandlerCtxs(r)
    /\ IF StartPanics(ctx)
       THEN /\ MwExit(r, spans, "Start", ctx.cur)
            /\ UNCHANGED wrappers
       ELSE IF TracerProviderOf(ctx) = "sdk"
       THEN /\ tp = "live"
            /\ Len(spans) < MaxSpans
            /\ LET id == Len(spans) + 1
                   newCtx == ContextWithSpan(ctx, LocalSpan(id))
               IN  /\ spans' = Append(spans, SdkStart(spans, ctx, id))
                   /\ wrappers' = [wrappers EXCEPT ![r] = @ \cup
                         {[span |-> LocalSpan(id), ctx |-> WrapperCtx(ctx, newCtx), from |-> ctx]}]
            /\ UNCHANGED <<req, buffer>>
       ELSE /\ wrappers' = [wrappers EXCEPT ![r] = @ \cup
                  {[span |-> NoopSpan,
                    ctx |-> WrapperCtx(ctx, ContextWithSpan(ctx, NoopSpan)),
                    from |-> ctx]}]
            /\ UNCHANGED <<spans, req, buffer>>
    /\ UNCHANGED <<exported, shut, tp, exporterUp, setupVars, storeVars, lastAdd>>

\* return s
AddAttributesReturn(w) == w

\* an attribute store shared by the spans of one parent
AddAttributesShared(r, w, m) ==
    /\ req[r].pc = "HandlerInvoked"
    /\ w \in wrappers[r]
    /\ spans' = IF IsLocal(w.span)
                  THEN [i \in 1..Len(spans) |->
                          IF spans[i].parent = spans[w.span[2]].parent
                          THEN SdkSetAttributes(spans[i], convertToAttributes(m))
                          ELSE spans[i]]
                  ELSE spans
    /\ lastAdd' = [op |-> "AddAttributes", r |-> r, w |-> w, m |-> m,
                   live |-> IsLocal(w.span) /\ ~spans[w.span[2]].ended,
                   pre |-> IF IsLocal(w.span) THEN spans[w.span[2]].attrs
                           ELSE [k \in UserKeys |-> Absent],
                   ret |-> AddAttributesReturn(w)]
    /\ UNCHANGED <<req, wrappers, buffer, exported, shut, tp, exporterUp, setupVars, storeVars>>

AddAttributes(r, w, m) ==
    /\ req[r].pc = "HandlerInvoked"
    /\ w \in wrappers[r]
    /\ spans' = IF IsLocal(w.span)
                  THEN [spans EXCEPT ![w.span[2]] = SdkSetAttributes(@, convertToAttributes(m))]
                  ELSE spans
    /\ lastAdd' = [op |-> "AddAttributes", r |-> r, w |-> w, m |-> m,
                   live |-> IsLocal(w.span) /\ ~spans[w.span[2]].ended,
                   pre |-> IF IsLocal(w.span) THEN spans[w.span[2]].attrs
                           ELSE [k \in UserKeys |-> Absent],
                   ret |-> AddAttributesReturn(w)]
    /\ UNCHANGED <<req, wrappers, buffer, exported, shut, tp, exporterUp, setupVars, storeVars>>

AddEvent(r, w) ==
    /\ req[r].pc = "HandlerInvoked"
    /\ w \in wrappers[r]
    /\ (IsLocal(w.span) /\ ~spans[w.span[2]].ended) => Len(spans[w.span[2]].events) < MaxEvents
    /\ spans' = IF IsLocal(w.span)
                  THEN [spans EXCEPT ![w.span[2]] = SdkAddEvent(@, "event")]
                  ELSE spans
    /\ UNCHANGED <<req, wrappers, buffer, exported, shut, tp, exporterUp, setupVars, storeVars, lastAdd>>

Errors == {NoValue, "boom"}

\* s.Span.RecordError(err); s.Span.SetStatus(codes.Error, err.Error())
RecordError(r, w, err) ==
    /\ req[r].pc = "HandlerInvoked"
    /\ w \in wrappers[r]
    /\ (IsLocal(w.span) /\ ~spans[w.span[2]].ended /\ err # NoValue)
          => Len(spans[w.span[2]].events) < MaxEvents
    /\ LET S1 == IF IsLocal(w.span)
                 THEN [spans EXCEPT ![w.span[2]] = SdkRecordError(@, err)]
                 ELSE spans
       IN  IF err = NoValue
           THEN MwExit(r, S1, "RecordError", w.span)
           ELSE /\ spans' = IF IsLocal(w.span)
                              THEN [S1 EXCEPT ![w.span[2]] = SdkSetStatus(@, "error", err)]
                              ELSE S1
                /\ UNCHANGED <<req, buffer>>
    /\ UNCHANGED <<wrappers, exported, shut, tp, exporterUp, setupVars, storeVars, lastAdd>>

End(r, w) ==
    /\ req[r].pc = "HandlerInvoked"
    /\ w \in wrappers[r]
    /\ IF IsLocal(w.span)
       THEN SdkEnd(spans, w.span[2])
       ELSE UNCHANGED <<spans, buffer>>
    /\ UNCHANGED <<req, wrappers, exported, shut, tp, exporterUp, setupVars, storeVars, lastAdd>>

\* ----------------------------------------------- batch span processor
Take(s, n) == SubSeq(s, 1, IF Len(s) < n THEN Len(s) ELSE n)

Drop(s, n) == SubSeq(s, (IF Len(s) < n THEN Len(s) ELSE n) + 1, Len(s))

\* WithMaxExportBatchSize(cfg.BatchSize): a full batch is exported
FlushOnSize ==
    /\ tp = "live"
    /\ exporterUp
    /\ Len(buffer) >= BatchSize
    /\ exported' = exported \o Take(buffer, BatchSize)
    /\ buffer' = Drop(buffer, BatchSize)
    /\ UNCHANGED <<spans, req, wrappers, shut, tp, exporterUp, setupVars, storeVars, lastAdd>>

\* WithBatchTimeout(cfg.BatchTimeout): the timer exports what is buffered
FlushOnTimeout ==
    /\ tp = "live"
    /\ exporterUp
    /\ buffer # <<>>
    /\ Len(buffer) < BatchSize
    /\ exported' = exported \o buffer
    /\ buffer' = <<>>
    /\ UNCHANGED <<spans, req, wrappers, shut, tp, exporterUp, setupVars, storeVars, lastAdd>>

\* after Shutdown was called the processor drains what is buffered, also
\* when the caller has already given up waiting
SdkDrain ==
    /\ tp = "shutdown"
    /\ exporterUp
    /\ buffer # <<>>
    /\ exported' = exported \o buffer
    /\ buffer' = <<>>
    /\ UNCHANGED <<spans, req, wrappers, shut, tp, exporterUp, setupVars, storeVars, lastAdd>>

\* -------------------------------------------------------------- shutdown
\* "deadline": a context whose deadline may elapse at any moment;
\* "ample": a deadline (the 5 seconds of main and of the tests) that leaves a
\* responding exporter the time to drain; "background": no deadline
ShutdownCtxs == {"deadline", "ample", "background"}

\* the context handed to TracerProvider.Shutdown
ShutdownCtxBackground(ctx) == "background"

ShutdownCtx(ctx) == ctx

\* the error handed back to the caller
ShutdownResult(err) == err

\* TracerProvider.Shutdown on a provider that was shut down before
SdkShutdownAgain == "nil"

EndedSpans == {i \in 1..Len(spans) : spans[i].ended}

Pending == shut # <<>> /\ shut[Len(shut)].res = "pending"

\* Shutdown is deferred behind app.Listen: it runs once the server has
\* stopped serving, with no handler in flight
Quiescent == \A r \in Requests : req[r].pc # "HandlerInvoked"

ShutdownFailsTwice(ctx) ==
    /\ Len(shut) < MaxShutdowns
    /\ ~Pending
    /\ Quiescent
    /\ IF tp = "shutdown"
       THEN /\ shut' = Append(shut, [on |-> "provider", ctx |-> ctx, sdkCtx |-> ShutdownCtx(ctx),
                                      res |-> "ErrProviderNotInitialized",
                                      before |-> EndedSpans, expAt |-> Len(exported)])
            /\ UNCHANGED tp
       ELSE /\ shut' = Append(shut, [on |-> "provider", ctx |-> ctx, sdkCtx |-> ShutdownCtx(ctx), res |-> "pending",
                                      before |-> EndedSpans, expAt |-> 0])
            /\ tp' = "shutdown"
    /\ UNCHANGED <<spans, req, wrappers, buffer, exported, exporterUp, setupVars, storeVars, lastAdd>>

\* a Shutdown that also hands the spans nobody ended to the pipeline
ShutdownFlushingLive(ctx) ==
    /\ Len(shut) < MaxShutdowns
    /\ ~Pending
    /\ Quiescent
    /\ IF tp = "shutdown"
       THEN /\ shut' = Append(shut, [on |-> "provider", ctx |-> ctx, sdkCtx |-> ShutdownCtx(ctx),
                                      res |-> ShutdownResult(SdkShutdownAgain),
                                      before |-> EndedSpans, expAt |-> Len(exported)])
            /\ UNCHANGED <<tp, buffer>>
       ELSE /\ shut' = Append(shut, [on |-> "provider", ctx |-> ctx, sdkCtx |-> ShutdownCtx(ctx),
                                      res |-> "pending",
                                      before |-> EndedSpans, expAt |-> 0])
            /\ tp' = "shutdown"
            /\ LET all == [i \in 1..Len(spans) |-> [id |-> i, span |-> spans[i]]]
                   Live(e) == ~e.span.ended
               IN  buffer' = buffer \o SelectSeq(all, Live)
    /\ UNCHANGED <<spans, req, wrappers, exported, exporterUp, setupVars, storeVars, lastAdd>>

\* Provider.Shutdown(ctx) is called and hands ctx to the tracer provider,
\* which stops the batch span processor and starts draining it; a provider
\* that was shut down before answers at once
Shutdown(ctx) ==
    /\ Len(shut) < MaxShutdowns
    /\ ~Pending
    /\ Quiescent
    /\ IF tp = "shutdown"
       THEN /\ shut' = Append(shut, [on |-> "provider", ctx |-> ctx, sdkCtx |-> ShutdownCtx(ctx),
                                      res |-> ShutdownResult(SdkShutdownAgain),
                                      before |-> EndedSpans, expAt |-> Len(exported)])
            /\ UNCHANGED tp
       ELSE /\ shut' = Append(shut, [on |-> "provider", ctx |-> ctx, sdkCtx |-> ShutdownCtx(ctx), res |-> "pending",
                                      before |-> EndedSpans, expAt |-> 0])
            /\ tp' = "shutdown"
    /\ UNCHANGED <<spans, req, wrappers, buffer, exported, exporterUp, setupVars, storeVars, lastAdd>>

\* a Shutdown that reports the missing tracer provider as an error
ShutdownNoTracerProviderErr == "ErrProviderNotInitialized"

\* if p.TracerProvider != nil { ... }; return nil
ShutdownNoTracerProvider == "nil"

\* Shutdown on a Provider{} that holds no tracer provider
ProviderShutdownEmpty(ctx) ==
    /\ Len(shut) < MaxShutdowns
    /\ ~Pending
    /\ shut' = Append(shut, [on |-> "Provider{}", ctx |-> ctx, sdkCtx |-> "none",
                             res |-> ShutdownNoTracerProvider,
                             before |-> EndedSpans, expAt |-> Len(exported)])
    /\ UNCHANGED <<spans, req, wrappers, buffer, exported, tp, exporterUp, setupVars, storeVars, lastAdd>>

\* Integration.Shutdown on an Integration{} that holds no Provider:
\* if i.provider != nil { ... }; return nil
IntegrationShutdownEmpty(ctx) ==
    /\ Len(shut) < MaxShutdowns
    /\ ~Pending
    /\ shut' = Append(shut, [on |-> "Integration{}", ctx |-> ctx, sdkCtx |-> "none",
                             res |-> "nil",
                             before |-> EndedSpans, expAt |-> Len(exported)])
    /\ UNCHANGED <<spans, req, wrappers, buffer, exported, tp, exporterUp, setupVars, storeVars, lastAdd>>

\* the drain is complete: the call returns nil
ShutdownReturn ==
    /\ Pending
    /\ buffer = <<>>
    /\ shut' = [shut EXCEPT ![Len(shut)].res = ShutdownResult("nil"),
                            ![Len(shut)].expAt = Len(exported)]
    /\ UNCHANGED <<spans, req, wrappers, buffer, exported, tp, exporterUp, setupVars, storeVars, lastAdd>>

\* the deadline of the context elapses first: the call returns ctx.Err()
ShutdownDeadline ==
    /\ Pending
    /\ \/ shut[Len(shut)].sdkCtx = "deadline"
       \/ shut[Len(shut)].sdkCtx = "ample" /\ ~exporterUp
    /\ shut' = [shut EXCEPT ![Len(shut)].res = ShutdownResult("context.DeadlineExceeded"),
                            ![Len(shut)].expAt = Len(exported)]
    /\ UNCHANGED <<spans, req, wrappers, buffer, exported, tp, exporterUp, setupVars, storeVars, lastAdd>>

\* ----------------------------------------------------------------- setup
ServiceNames == {"", "vayu-service"}

\* whether the exporter can be constructed from the configuration
Exporters == {"ok", "fails"}

Endpoints == {"localhost:4317", "collector:4317"}

HeaderSets == {<<>>, <<"authorization">>}

\* DefaultConfig() with a service name, and an exporter that can or cannot
\* be constructed
Configs ==
    [ServiceName : ServiceNames, exporter : Exporters, UseStdout : {FALSE},
     OTLPEndpoint : {"localhost:4317"}, Insecure : {TRUE}, Headers : {<<>>}]

\* configurations that differ in what selects and parameterises the exporter
ExporterConfigs ==
    [ServiceName : {"vayu-service"}, exporter : {"ok"}, UseStdout : BOOLEAN,
     OTLPEndpoint : Endpoints, Insecure : BOOLEAN, Headers : HeaderSets]

\* an exporter selection that always goes to the network
ExporterNetworkOnly(cfg) ==
    [kind |-> "otlp-grpc", endpoint |-> cfg.OTLPEndpoint,
     insecure |-> cfg.Insecure, headers |-> cfg.Headers]

\* the exporter NewProvider constructs: stdouttrace.New, or otlptrace.New on
\* a gRPC client for cfg.OTLPEndpoint, WithInsecure if cfg.Insecure,
\* WithHeaders if there are headers
ExporterFor(cfg) ==
    IF cfg.UseStdout
    THEN [kind |-> "stdout", endpoint |-> NoValue, insecure |-> FALSE, headers |-> <<>>]
    ELSE [kind |-> "otlp-grpc", endpoint |-> cfg.OTLPEndpoint,
          insecure |-> cfg.Insecure, headers |-> cfg.Headers]

Apps == {"nil", "app"}

\* NewProvider(cfg): what it returns and what it has built on the way.
\* The service name only becomes a resource attribute; the one failure is
\* the error of the exporter's constructor, handed on as it is.
NewProvider(cfg) ==
    IF cfg.exporter = "fails"
    THEN [err |-> "exporter error", value |-> "nil", made |-> <<>>,
          exporter |-> FALSE, bsp |-> FALSE, installed |-> FALSE]
    ELSE [err |-> "nil", value |-> "provider", made |-> <<ExporterFor(cfg)>>,
          exporter |-> TRUE, bsp |-> TRUE, installed |-> TRUE]

SetupUnchecked(app, cfg) ==
    LET p == NewProvider(cfg) IN
    IF p.err # "nil" THEN p ELSE [p EXCEPT !.value = "integration"]

\* Setup(options)
Setup(app, cfg) ==
    IF app = "nil"
    THEN [err |-> "ErrNoApp", value |-> "nil", made |-> <<>>,
          exporter |-> FALSE, bsp |-> FALSE, installed |-> FALSE]
    ELSE LET p == NewProvider(cfg) IN
         IF p.err # "nil" THEN p ELSE [p EXCEPT !.value = "integration"]

\* a call of NewProvider or Setup: otel.SetTracerProvider(tp) installs the
\* new provider process-wide
Installs(res) ==
    /\ global' = IF res.installed THEN "sdk" ELSE global
    /\ tp' = IF res.installed THEN "live" ELSE tp

CallNewProvider(cfg) ==
    /\ Len(calls) < MaxCalls
    /\ LET res == NewProvider(cfg) IN
           /\ calls' = Append(calls, [op |-> "NewProvider", app |-> "app", cfg |-> cfg, res |-> res])
           /\ Installs(res)
    /\ UNCHANGED <<spans, req, wrappers, buffer, exported, shut, exporterUp, tracers, tspans, storeVars, lastAdd>>

CallSetup(app, cfg) ==
    /\ Len(calls) < MaxCalls
    /\ LET res == Setup(app, cfg) IN
           /\ calls' = Append(calls, [op |-> "Setup", app |-> app, cfg |-> cfg, res |-> res])
           /\ Installs(res)
    /\ UNCHANGED <<spans, req, wrappers, buffer, exported, shut, exporterUp, tracers, tspans, storeVars, lastAdd>>

\* the *Integration values a caller can hold: the zero Integration (no
\* provider), and what Setup calls have returned
Integrations ==
    {"zero"} \cup {calls[k].res.value : k \in {j \in 1..Len(calls) : calls[j].op = "Setup"}}

HasProvider(i) == i = "integration"

\* NewNoopTracer(): otel.GetTracerProvider().Tracer("noop"), a tracer of
\* whatever provider is installed process-wide when it starts a span
NewNoopTracer == "global"

\* i.GetTracer(name); on a nil *Integration the read of i.provider panics
GetTracer(i) ==
    IF i = "nil" THEN "panic"
    ELSE IF ~HasProvider(i) THEN NewNoopTracer
    ELSE "sdk"

CallGetTracer(i) ==
    /\ i \in Integrations
    /\ tracers' = tracers \cup {[integ |-> i, kind |-> GetTracer(i)]}
    /\ UNCHANGED <<spans, req, wrappers, buffer, exported, shut, tp, exporterUp,
                   global, calls, tspans, storeVars, lastAdd>>

\* whether a span started on tracer t now is a recording SDK span
Recording(t) == t.kind = "sdk" \/ (t.kind = "global" /\ global = "sdk")

\* tracer.Start(context.Background(), name) on a tracer from GetTracer
TracerStart(t) ==
    /\ t \in tracers
    /\ t.kind # "panic"
    /\ IF Recording(t)
       THEN /\ tp = "live"
            /\ Len(spans) < MaxSpans
            /\ LET id == Len(spans) + 1 IN
                   /\ spans' = Append(spans, SdkStart(spans, Background, id))
                   /\ tspans' = tspans \cup {[tracer |-> t, span |-> LocalSpan(id)]}
       ELSE /\ tspans' = tspans \cup {[tracer |-> t, span |-> NoopSpan]}
            /\ UNCHANGED spans
    /\ UNCHANGED <<req, wrappers, buffer, exported, shut, tp, exporterUp,
                   global, calls, tracers, storeVars, lastAdd>>

\* span.End() on such a span
TracerSpanEnd(ts) ==
    /\ ts \in tspans
    /\ IsLocal(ts.span)
    /\ ~spans[ts.span[2]].ended
    /\ SdkEnd(spans, ts.span[2])
    /\ UNCHANGED <<req, wrappers, exported, shut, tp, exporterUp, setupVars, storeVars, lastAdd>>

\* the process before any Setup or NewProvider call: the default global
\* tracer provider, which starts no-op spans until a provider is installed
InitSetup ==
    /\ spans = <<>>
    /\ req = [r \in Requests |->
                [pc |-> "Idle", header |-> "absent", tls |-> FALSE, proto |-> "",
                 ctx |-> Background,
                 root |-> 0, resp |-> 0, fault |-> "none", faultOn |-> NoopSpan,
                 mwEnds |-> 0]]
    /\ wrappers = [r \in Requests |-> {}]
    /\ buffer = <<>>
    /\ exported = <<>>
    /\ shut = <<>>
    /\ tp = "none"
    /\ exporterUp \in BOOLEAN
    /\ global = "default"
    /\ calls = <<>>
    /\ tracers = {}
    /\ tspans = {}
    /\ store = NewMockContext
    /\ storeLog = <<>>
    /\ lastAdd = NoCall

\* a set operation on the context store of a request
StoreSetOp(t, k, v) ==
    /\ Len(storeLog) < MaxStoreOps
    /\ store' = StoreSet(store, t, k, v)
    /\ storeLog' = Append(storeLog, [t |-> t, k |-> k, v |-> v])
    /\ UNCHANGED <<spans, req, wrappers, buffer, exported, shut, tp, exporterUp, setupVars, lastAdd>>

SetString(k, v) == StoreSetOp("string", k, v)

SetInt(k, v) == StoreSetOp("int", k, v)

SetFloat(k, v) == StoreSetOp("float", k, v)

SetBool(k, v) == StoreSetOp("bool", k, v)

SetStringSlice(k, v) == StoreSetOp("slice", k, v)

SetValue(k, v) == StoreSetOp("opaque", k, v)

\* the spans a handler can hand to StoreSpan: the span of a context it has,
\* trace.SpanFromContext, or the span of one of its wrappers
SpansAtHand(r) == {ctx.cur : ctx \in HandlerCtxs(r)} \cup {w.span : w \in wrappers[r]}

\* a handler calls StoreSpan(c, span) on its request's context
CallStoreSpan(r, ref) ==
    /\ req[r].pc = "HandlerInvoked"
    /\ ref \in SpansAtHand(r)
    /\ Len(storeLog) < MaxStoreOps
    /\ store' = StoreSpan(store, spans, ref)
    /\ storeLog' = Append(storeLog, [t |-> "span", k |-> SpanKey, v |-> ref])
    /\ UNCHANGED <<spans, req, wrappers, buffer, exported, shut, tp, exporterUp, setupVars, lastAdd>>

\* ------------------------------------------------------ specifications
Next ==
    \/ \E r \in Requests, h \in Headers : MwEnter(r, h)
    \/ \E r \in Requests : HandlerReturn(r)
    \/ \E r \in Requests : HandlerPanic(r)
    \/ \E r \in Requests, c \in StatusCodes : HandlerWrite(r, c)
    \/ \E r \in Requests : \E ctx \in HandlerCtxs(r) : Start(r, ctx)
    \/ \E r \in Requests : \E w \in wrappers[r] : \E err \in Errors : RecordError(r, w, err)
    \/ \E r \in Requests : \E w \in wrappers[r] : End(r, w)
    \/ FlushOnSize
    \/ FlushOnTimeout

Spec == Init /\ [][Next]_vars

NextWrapper ==
    \/ \E h \in Headers : MwEnter(1, h)
    \/ \E r \in Requests : HandlerReturn(r)
    \/ \E r \in Requests : HandlerPanic(r)
    \/ \E r \in Requests : \E ctx \in HandlerCtxs(r) : Start(r, ctx)
    \/ \E r \in Requests : \E w \in wrappers[r] : \E m \in AttrMaps : AddAttributes(r, w, m)
    \/ \E r \in Requests : \E w \in wrappers[r] : AddEvent(r, w)
    \/ \E r \in Requests : \E w \in wrappers[r] : \E err \in Errors : RecordError(r, w, err)
    \/ \E r \in Requests : \E w \in wrappers[r] : End(r, w)
    \/ FlushOnSize
    \/ FlushOnTimeout

SpecWrapper == Init /\ [][NextWrapper]_vars

NextShutdown ==
    \/ \E r \in Requests : MwEnter(r, "absent")
    \/ \E r \in Requests : HandlerReturn(r)
    \/ \E r \in Requests : \E ctx \in HandlerCtxs(r) : Start(r, ctx)
    \/ \E r \in Requests : \E w \in wrappers[r] : End(r, w)
    \/ FlushOnSize
    \/ FlushOnTimeout
    \/ SdkDrain
    \/ \E ctx \in ShutdownCtxs : Shutdown(ctx)
    \/ ShutdownReturn
    \/ ShutdownDeadline

SpecShutdown == Init /\ [][NextShutdown]_vars

\* the same, with Shutdown calls on a Provider and an Integration that hold
\* nothing as well
NextShutdownAny ==
    \/ NextShutdown
    \/ \E ctx \in ShutdownCtxs : ProviderShutdownEmpty(ctx)
    \/ \E ctx \in ShutdownCtxs : IntegrationShutdownEmpty(ctx)

SpecShutdownAny == Init /\ [][NextShutdownAny]_vars

\* the runtime timer of a context with a deadline fires
FairShutdown == SpecShutdown /\ WF_vars(ShutdownDeadline)

NextSetup ==
    \/ \E cfg \in Configs : CallNewProvider(cfg)
    \/ \E app \in Apps, cfg \in Configs : CallSetup(app, cfg)
    \/ \E i \in Integrations : CallGetTracer(i)
    \/ \E t \in tracers : TracerStart(t)
    \/ \E ts \in tspans : TracerSpanEnd(ts)
    \/ FlushOnSize
    \/ FlushOnTimeout

\* one request whose handler starts spans and sets attributes on them
NextAttrs ==
    \/ MwEnter(1, "absent")
    \/ HandlerReturn(1)
    \/ Start(1, req[1].ctx)
    \/ \E w \in wrappers[1] : \E m \in AttrInputs : AddAttributes(1, w, m)
    \/ \E w \in wrappers[1] : End(1, w)

SpecAttrs == Init /\ [][NextAttrs]_vars

\* requests over TLS or plain HTTP, with and without forwarded-proto header
NextHttp ==
    \/ \E r \in Requests, tls \in BOOLEAN, proto \in Protos : MwEnterReq(r, "absent", tls, proto)
    \/ \E r \in Requests : HandlerReturn(r)
    \/ \E r \in Requests : HandlerPanic(r)
    \/ FlushOnSize
    \/ FlushOnTimeout

SpecHttp == Init /\ [][NextHttp]_vars

\* NewProvider calls with every exporter configuration
NextExporter ==
    \E cfg \in ExporterConfigs : CallNewProvider(cfg)

SpecExporter == InitSetup /\ [][NextExporter]_vars

SpecSetup == InitSetup /\ [][NextSetup]_vars

NextStore ==
    \/ \E k \in StoreKeys : \E v \in StoreValuesOf("string") : SetString(k, v)
    \/ \E k \in StoreKeys : \E v \in StoreValuesOf("int") : SetInt(k, v)
    \/ \E k \in StoreKeys : \E v \in StoreValuesOf("float") : SetFloat(k, v)
    \/ \E k \in StoreKeys : \E v \in StoreValuesOf("bool") : SetBool(k, v)
    \/ \E k \in StoreKeys : \E v \in StoreValuesOf("slice") : SetStringSlice(k, v)
    \/ \E k \in StoreKeys : \E v \in StoreValuesOf("opaque") : SetValue(k, v)

SpecStore == Init /\ [][NextStore]_vars

\* one request whose handler starts spans and stores them in its context
NextStoreSpan ==
    \/ \E h \in Headers : MwEnter(1, h)
    \/ \E ctx \in HandlerCtxs(1) : Start(1, ctx)
    \/ \E ref \in SpansAtHand(1) : CallStoreSpan(1, ref)
    \/ HandlerReturn(1)

SpecStoreSpan == Init /\ [][NextStoreSpan]_vars

\* ---------------------------------------------------------------- claims
RootOf(r) == spans[req[r].root]

HandlerStatus(r) == IF req[r].resp = 0 THEN 200 ELSE req[r].resp

IdOf(ref) == IF IsLocal(ref) THEN SpanID(ref[2]) ELSE ZeroID

TraceOf(ref) == IF IsLocal(ref) THEN spans[ref[2]].trace ELSE ZeroID

ParentOf(ref) == IF IsLocal(ref) THEN spans[ref[2]].parent ELSE ZeroID

Pipeline == buffer \o exported

\* C1: when the handler has returned, a response status >= 500 leaves the
\* root span with status error and an http.status_code attribute equal to
\* the handler's status; a 200 leaves the status unset.
C1_StatusPropagation ==
    \A r \in Requests :
        (req[r].pc = "Ended" /\ req[r].fault = "none") =>
            /\ HandlerStatus(r) >= 500 =>
                  (RootOf(r).status = "error" /\ RootOf(r).code = HandlerStatus(r))
            /\ HandlerStatus(r) = 200 => RootOf(r).status # "error"

\* C2: Start never panics, whether or not the context carries the tracer
\* name: no request is ever unwound by a panic raised in Start.
C2_StartNeverPanics == \A r \in Requests : req[r].fault # "Start"

\* C3: the middleware ends the root span exactly once on every way out of
\* the request, a panic of the handler included, and not before.
C3_RootEndedOnce ==
    \A r \in Requests :
        /\ req[r].pc = "Ended" => (req[r].mwEnds = 1 /\ RootOf(r).ended)
        /\ req[r].pc = "HandlerInvoked" => (req[r].mwEnds = 0 /\ ~RootOf(r).ended)
        /\ req[r].pc # "Idle" =>
              Cardinality({k \in 1..Len(Pipeline) : Pipeline[k].id = req[r].root}) <= 1

C3_Witness ==
    \E r \in Requests :
        req[r].pc = "Ended" /\ req[r].fault = "handler" /\ RootOf(r).ended

\* C4: a span B started from the context of a wrapper A has A's span
\* identifier as its parent and A's trace identifier, at any depth.
C4_ParentLinkage ==
    \A r \in Requests : \A A \in wrappers[r] : \A B \in wrappers[r] :
        B.from = Context(A) =>
            /\ ParentOf(B.span) = IdOf(A.span)
            /\ TraceOf(B.span) = TraceOf(A.span)

C4_Witness ==
    \E r \in Requests : \E A \in wrappers[r] : \E B \in wrappers[r] :
        /\ IsLocal(A.span) /\ IsLocal(B.span)
        /\ A.from = req[r].ctx
        /\ B.from = Context(A)
        /\ ParentOf(B.span) = SpanID(A.span[2])
        /\ ParentOf(A.span) = SpanID(req[r].root)

\* C5: while the handler runs the request's context carries the root span
\* and the tracer name; a span started from it is a child of the root span
\* in the root's trace; without a valid inbound header that trace is new.
C5_HandlerSeesRoot ==
    \A r \in Requests :
        req[r].pc # "Idle" =>
            /\ req[r].ctx.cur = LocalSpan(req[r].root)
            /\ req[r].ctx.name = tracerNameValue
            /\ \A w \in wrappers[r] :
                  w.from = req[r].ctx =>
                      /\ IsLocal(w.span)
                      /\ ParentOf(w.span) = SpanID(req[r].root)
                      /\ TraceOf(w.span) = RootOf(r).trace
            /\ req[r].header # "valid" =>
                  /\ RootOf(r).parent = ZeroID
                  /\ RootOf(r).trace # RemoteTraceID
                  /\ \A q \in Requests :
                        (q # r /\ req[q].pc # "Idle") => RootOf(q).trace # RootOf(r).trace

C5_Witness ==
    \E r \in Requests : \E w \in wrappers[r] :
        /\ req[r].header = "absent"
        /\ w.from = req[r].ctx
        /\ IsLocal(w.span)
        /\ ParentOf(w.span) = SpanID(req[r].root)

\* C6: a span is handed to the export pipeline at most once, what was
\* handed over never changes afterwards, and no call on a wrapper whose
\* span has ended panics.
C6_ExportOnce ==
    /\ \A k \in 1..Len(Pipeline) : \A l \in 1..Len(Pipeline) :
          Pipeline[k].id = Pipeline[l].id => k = l
    /\ \A k \in 1..Len(Pipeline) : Pipeline[k].span = spans[Pipeline[k].id]
    /\ \A r \in Requests :
          (req[r].fault = "RecordError" /\ IsLocal(req[r].faultOn))
              => ~spans[req[r].faultOn[2]].ended

\* C7: a Shutdown call made after a call that returned nil returns nil
\* too; once the first call has returned nil the exporter receives nothing
\* more, whatever calls follow; and no span reaches the exporter twice.
C7_ShutdownIdempotent ==
    /\ \A i \in 1..Len(shut) : \A j \in 1..Len(shut) :
          (i < j /\ shut[i].res = "nil" /\ shut[j].res # "pending") =>
              (shut[j].res = "nil" /\ shut[j].expAt >= shut[i].expAt)
    /\ (Len(shut) >= 1 /\ shut[1].res = "nil") =>
          /\ Len(exported) = shut[1].expAt
          /\ \A j \in 1..Len(shut) : shut[j].expAt = shut[1].expAt
    /\ \A k \in 1..Len(exported) : \A l \in 1..Len(exported) :
          exported[k].id = exported[l].id => k = l

C7_Witness ==
    /\ Len(shut) >= 2
    /\ shut[1].res = "nil"
    /\ shut[2].res = "nil"
    /\ exported # <<>>

\* C8: when a Shutdown call has returned nil, every span that had ended
\* when it was called has been handed to the exporter.
C8_ShutdownFlushesAll ==
    \A i \in 1..Len(shut) :
        shut[i].res = "nil" =>
            \A s \in shut[i].before : \E k \in 1..Len(exported) : exported[k].id = s

\* C9: the only error Shutdown returns is the package's own
\* ShutdownTimeoutError, returned when the deadline elapses first.
C9_TimeoutError ==
    \A i \in 1..Len(shut) :
        shut[i].res \notin {"pending", "nil"} => shut[i].res = "ShutdownTimeoutError"

\* C10: a Shutdown call whose context has a deadline returns, whether or
\* not the exporter ever responds.
C10_ShutdownTerminates ==
    (Pending /\ shut[Len(shut)].ctx = "deadline") ~> ~Pending

C10_Witness ==
    \E i \in 1..Len(shut) :
        /\ shut[i].ctx = "deadline"
        /\ shut[i].res = "context.DeadlineExceeded"
        /\ ~exporterUp
        /\ buffer # <<>>

NothingBuilt(res) == res.value = "nil" /\ ~res.exporter /\ ~res.bsp /\ ~res.installed

BuildsProvider(c) == c.op = "NewProvider" \/ c.app # "nil"

\* C11: a NewProvider call (directly or through Setup) whose configuration
\* has an empty service name returns an error and no Provider, and builds
\* no exporter, no batch processor and installs no tracer provider.
C11_EmptyServiceNameRejected ==
    \A k \in 1..Len(calls) :
        (BuildsProvider(calls[k]) /\ calls[k].cfg.ServiceName = "") =>
            (calls[k].res.err # "nil" /\ NothingBuilt(calls[k].res))

ValidConfig(cfg) == cfg.ServiceName # "" /\ cfg.exporter = "ok"

\* C12: Setup with a nil App returns (nil, ErrNoApp) and has built and
\* installed nothing; Setup with an App and a valid configuration returns
\* an Integration and a nil error.
C12_SetupChecksApp ==
    /\ \A k \in 1..Len(calls) :
          calls[k].op = "Setup" =>
              /\ calls[k].app = "nil" =>
                    (calls[k].res.err = "ErrNoApp" /\ NothingBuilt(calls[k].res))
              /\ (calls[k].app # "nil" /\ ValidConfig(calls[k].cfg)) =>
                    (calls[k].res.err = "nil" /\ calls[k].res.value = "integration")
    /\ (\A k \in 1..Len(calls) : calls[k].op = "Setup" /\ calls[k].app = "nil") =>
          (global = "default" /\ tp = "none")

C12_Witness ==
    /\ Len(calls) = 2
    /\ calls[1].op = "Setup" /\ calls[1].app = "nil" /\ calls[1].res.err = "ErrNoApp"
    /\ global = "sdk"
    /\ calls[2].op = "Setup" /\ calls[2].app = "app" /\ ValidConfig(calls[2].cfg)
    /\ calls[2].res.value = "integration"

\* C13: GetTracer on an Integration without a Provider returns a tracer
\* (it does not panic) whose spans are no-op spans: none of them is an SDK
\* span, none is ever buffered or exported.
C13_NoopTracerWithoutProvider ==
    /\ \A t \in tracers : ~HasProvider(t.integ) => t.kind # "panic"
    /\ \A ts \in tspans :
          ~HasProvider(ts.tracer.integ) =>
              /\ ~IsLocal(ts.span)
              /\ \A k \in 1..Len(Pipeline) : LocalSpan(Pipeline[k].id) # ts.span

SpanOf(w) == spans[w.span[2]]

\* C14: AddAttributes on an un-ended span sets every key whose value has a
\* supported type to that value and leaves every key whose value has an
\* unsupported type as it was; the call does not panic and returns the
\* wrapper it was called on.
C14_AddAttributesFilters ==
    lastAdd.op = "AddAttributes" =>
        /\ lastAdd.ret = lastAdd.w
        /\ req[lastAdd.r].fault = "none"
        /\ lastAdd.live =>
              \A k \in UserKeys :
                  IF lastAdd.m[k][1] \in Supported
                  THEN /\ SpanOf(lastAdd.w).attrs[k] # Absent
                       /\ SpanOf(lastAdd.w).attrs[k][2] = lastAdd.m[k][2]
                  ELSE SpanOf(lastAdd.w).attrs[k] = lastAdd.pre[k]

C14_Witness ==
    /\ lastAdd.op = "AddAttributes"
    /\ lastAdd.live
    /\ lastAdd.m["k"] = <<"string", "v1">>
    /\ lastAdd.m["u"] = <<"[]string", "x">>
    /\ lastAdd.pre["u"] = <<"INT64", "7">>
    /\ SpanOf(lastAdd.w).attrs["k"] = <<"STRING", "v1">>
    /\ SpanOf(lastAdd.w).attrs["u"] = <<"INT64", "7">>

\* C15: when AddAttributes sets a key that already has a value, the key
\* has the new value afterwards and nothing else (last write wins);
\* repeating the call just made leaves the span as it is.
C15_LastWriteWins ==
    (lastAdd.op = "AddAttributes" /\ lastAdd.live) =>
        /\ \A k \in UserKeys :
              (lastAdd.pre[k] # Absent /\ lastAdd.m[k][1] \in Supported) =>
                  SpanOf(lastAdd.w).attrs[k] = ConvertValue(lastAdd.m[k])
        /\ SdkSetAttributes(SpanOf(lastAdd.w), convertToAttributes(lastAdd.m)) = SpanOf(lastAdd.w)

C15_Witness ==
    /\ lastAdd.op = "AddAttributes"
    /\ lastAdd.live
    /\ lastAdd.pre["k"] = <<"STRING", "v1">>
    /\ lastAdd.m["k"] = <<"string", "v2">>
    /\ SpanOf(lastAdd.w).attrs["k"] = <<"STRING", "v2">>
    /\ ~SpanOf(lastAdd.w).ended

\* C16: RecordError never interrupts its caller, whatever error value it
\* is given: no request is ever unwound by a panic raised in RecordError.
C16_RecordErrorNeverInterrupts == \A r \in Requests : req[r].fault # "RecordError"

Siblings(r) ==
    {p \in wrappers[r] \X wrappers[r] :
        p[1] # p[2] /\ p[1].from = p[2].from /\ IsLocal(p[1].span) /\ IsLocal(p[2].span)}

\* C17: two spans started from the same parent context have distinct span
\* identifiers and the parent context's span as parent, and a span's
\* attribute set changes only in an AddAttributes call on a wrapper of
\* that very span, never through a call on a sibling.
C17_SiblingIndependence ==
    /\ [](\A r \in Requests : \A p \in Siblings(r) :
            /\ IdOf(p[1].span) # IdOf(p[2].span)
            /\ ParentOf(p[1].span) = IdOf(p[1].from.cur)
            /\ ParentOf(p[2].span) = IdOf(p[1].from.cur))
    /\ [][\A i \in 1..Len(spans) :
            spans'[i].attrs # spans[i].attrs =>
                \E r \in Requests : \E w \in wrappers[r] : \E m \in AttrInputs :
                    w.span = LocalSpan(i) /\ AddAttributes(r, w, m)]_vars

C17_Witness ==
    \E r \in Requests : \E p \in Siblings(r) :
        /\ p[1].from = req[r].ctx
        /\ SpanOf(p[1]).attrs["k"] = <<"STRING", "v1">>
        /\ SpanOf(p[2]).attrs["k"] = Absent
        /\ Len(SpanOf(p[2]).events) = 1
        /\ ~SpanOf(p[1]).ended /\ ~SpanOf(p[2]).ended

\* C18: with a valid inbound trace-context header the root span continues
\* the caller's trace with the caller's span as parent; with the header
\* absent or malformed the root span starts a trace of its own with no
\* parent, and in both cases the handler is invoked.
C18_InboundPropagation ==
    \A r \in Requests :
        req[r].pc # "Idle" =>
            /\ req[r].header = "valid" =>
                  (RootOf(r).trace = RemoteTraceID /\ RootOf(r).parent = RemoteSpanID)
            /\ req[r].header \in {"absent", "malformed"} =>
                  (RootOf(r).trace = NewTraceID(req[r].root) /\ RootOf(r).parent = ZeroID)
            /\ req[r].pc = "Ended" => req[r].fault # "none" \/ RootOf(r).code # 0

C18_Witness ==
    \E r \in Requests : \E q \in Requests :
        /\ req[r].header = "valid" /\ RootOf(r).trace = RemoteTraceID
        /\ req[q].header = "malformed" /\ req[q].pc = "Ended" /\ req[q].fault = "none"
        /\ RootOf(q).parent = ZeroID

\* C19: the context of a wrapper carries the wrapper's own span as the
\* active span, and the context a Start call was given does not: it keeps
\* the active span it had, the request's context the root span.
C19_ContextCarriesOwnSpan ==
    \A r \in Requests :
        /\ \A w \in wrappers[r] :
              /\ Context(w).cur = w.span
              /\ IsLocal(w.span) => w.from.cur # w.span
        /\ req[r].pc # "Idle" => req[r].ctx.cur = LocalSpan(req[r].root)

C19_Witness ==
    \E r \in Requests : \E A \in wrappers[r] : \E B \in wrappers[r] :
        /\ IsLocal(A.span) /\ IsLocal(B.span)
        /\ B.from = Context(A)
        /\ Context(A).cur = A.span
        /\ Context(B).cur = B.span
        /\ A.span # B.span

SetsOf(t, k) == {i \in 1..Len(storeLog) : storeLog[i].t = t /\ storeLog[i].k = k}

LastSet(t, k) == CHOOSE i \in SetsOf(t, k) : \A j \in SetsOf(t, k) : j <= i

\* C20: every typed getter returns the value last stored for the key
\* through the setter of its own type, or the type's zero value when that
\* setter was never called for the key, whatever was stored for the key
\* under other types; the opaque getter alone also tells whether the key
\* was set.
C20_TypedStore ==
    /\ \A t \in Partitions : \A k \in StoreKeys :
          /\ StoreGet(store, t, k) =
                IF SetsOf(t, k) = {} THEN ZeroOf(t) ELSE storeLog[LastSet(t, k)].v
          /\ StoreGet(store, t, k) \in StoreValuesOf(t)
    /\ \A k \in StoreKeys :
          GetValue(store, k) =
              <<StoreGet(store, "opaque", k), SetsOf("opaque", k) # {}>>

C20_Witness ==
    /\ Len(storeLog) = 3
    /\ storeLog[1] = [t |-> "string", k |-> "trace_id", v |-> "abc"]
    /\ storeLog[2].t = "int" /\ storeLog[2].k = "trace_id" /\ storeLog[2].v = 7
    /\ storeLog[3] = [t |-> "string", k |-> "trace_id", v |-> ""]
    /\ StoreGet(store, "string", "trace_id") = ""
    /\ StoreGet(store, "int", "trace_id") = 7
    /\ StoreGet(store, "string", "span_id") = ""
    /\ GetValue(store, "trace_id")[2] = FALSE

\* C21: Shutdown on a Provider without tracer provider and on an
\* Integration without Provider returns nil and shuts nothing down;
\* Shutdown of the Provider with the 5-second deadline returns nil when the
\* exporter responds, the first call as well as later ones.
C21_ShutdownNilCases ==
    /\ \A i \in 1..Len(shut) :
          /\ shut[i].on # "provider" => shut[i].res = "nil"
          /\ (shut[i].on = "provider" /\ shut[i].ctx = "ample" /\ exporterUp
                /\ shut[i].res # "pending") => shut[i].res = "nil"
    /\ (\A i \in 1..Len(shut) : shut[i].on # "provider") => tp = "live"

C21_Witness ==
    /\ Len(shut) = 2
    /\ shut[1].on = "Provider{}" /\ shut[1].res = "nil"
    /\ shut[2].on = "provider" /\ shut[2].ctx = "ample" /\ shut[2].res = "nil"
    /\ shut[2].before # {}
    /\ \A sp \in shut[2].before : \E k \in 1..Len(exported) : exported[k].id = sp

\* C22: the handler is invoked once per request and never again, and a
\* panic raised by the handler leaves the middleware as a panic, with the
\* root span ended: it is neither retried nor swallowed.
C22_HandlerFailurePropagates ==
    [][\A r \in Requests :
          /\ HandlerPanic(r) =>
                /\ req'[r].pc = "Ended"
                /\ req'[r].fault = "handler"
                /\ spans'[req[r].root].ended
          /\ req[r].pc = "HandlerInvoked" => req'[r].pc \in {"HandlerInvoked", "Ended"}
          /\ req[r].pc = "Ended" => req'[r] = req[r]]_vars

C22_Witness ==
    \E r \in Requests :
        /\ req[r].pc = "Ended"
        /\ req[r].fault = "handler"
        /\ req[r].mwEnds = 1
        /\ \E k \in 1..Len(Pipeline) : Pipeline[k].id = req[r].root

\* C28: the root span's http.scheme is "https" for a request with TLS
\* state whatever the forwarded-proto header says, else the header's value
\* when it is not empty, else "http".
C28_Scheme ==
    \A r \in Requests :
        req[r].pc # "Idle" =>
            /\ req[r].tls => RootOf(r).scheme = "https"
            /\ (~req[r].tls /\ req[r].proto # "") => RootOf(r).scheme = req[r].proto
            /\ (~req[r].tls /\ req[r].proto = "") => RootOf(r).scheme = "http"

C28_Witness ==
    \E r \in Requests : \E q \in Requests :
        /\ req[r].tls /\ req[r].proto = "ws" /\ RootOf(r).scheme = "https"
        /\ ~req[q].tls /\ req[q].proto = "ws" /\ req[q].pc # "Idle" /\ RootOf(q).scheme = "ws"

\* the root span as it was handed to the export pipeline
SnapshotsOf(r) == {Pipeline[k].span : k \in {j \in 1..Len(Pipeline) : Pipeline[j].id = req[r].root}}

\* SpanStarted and annotated, handler not yet returned
BeforeHandlerReturn(r) ==
    /\ RootOf(r).scheme # NoValue
    /\ RootOf(r).code = 0
    /\ ~RootOf(r).ended

\* StatusFinalized, then Ended
FinalizedThenEnded(r) ==
    /\ RootOf(r).scheme # NoValue
    /\ RootOf(r).code # 0
    /\ RootOf(r).ended
    /\ \A sn \in SnapshotsOf(r) : sn.code # 0

\* C23 as stated: every request goes through SpanStarted, HandlerInvoked,
\* StatusFinalized and Ended, none skipped: while the handler runs the root
\* span is started, annotated, not finalized and not ended, and a request
\* that has ended has had its status finalized before the span was ended.
C23_StateOrder ==
    \A r \in Requests :
        /\ req[r].pc = "HandlerInvoked" => BeforeHandlerReturn(r)
        /\ req[r].pc = "Ended" => FinalizedThenEnded(r)

\* C23 amended: the order holds, none skipped, when the handler returns;
\* when the handler raises a failure the request goes from HandlerInvoked
\* straight to Ended, the status never finalized; no state is repeated.
C23_StateOrderAmended ==
    /\ [](\A r \in Requests :
            /\ req[r].pc = "HandlerInvoked" => BeforeHandlerReturn(r)
            /\ (req[r].pc = "Ended" /\ req[r].fault = "none") => FinalizedThenEnded(r)
            /\ (req[r].pc = "Ended" /\ req[r].fault # "none") =>
                  (RootOf(r).ended /\ RootOf(r).code = 0 /\ RootOf(r).scheme # NoValue))
    /\ [][\A r \in Requests :
            /\ req[r].pc = "Idle" => req'[r].pc \in {"Idle", "HandlerInvoked"}
            /\ req[r].pc = "HandlerInvoked" => req'[r].pc \in {"HandlerInvoked", "Ended"}
            /\ req[r].pc = "Ended" => req'[r].pc = "Ended"]_vars

C23_Witness ==
    \E r \in Requests : \E q \in Requests :
        /\ req[r].pc = "Ended" /\ req[r].fault = "none"
        /\ RootOf(r).code = responseStatus
        /\ SnapshotsOf(r) # {}
        /\ req[q].pc = "Ended" /\ req[q].fault = "handler"
        /\ RootOf(q).code = 0

\* the SDK spans of request r: its root span and the spans of its wrappers
SpansOfRequest(r) ==
    IF req[r].pc = "Idle" THEN {}
    ELSE {req[r].root} \cup {w.span[2] : w \in {x \in wrappers[r] : IsLocal(x.span)}}

\* C24: with requests in flight together, each request's context carries
\* its own root span; every span started in a request is in the trace of
\* that request's root span and has a span of the same request as parent,
\* never one of another request; and a step of one request leaves the
\* contexts of the other requests and of all existing wrappers as they are.
C24_RequestIsolation ==
    /\ [](\A r \in Requests :
            /\ req[r].pc # "Idle" => req[r].ctx.cur = LocalSpan(req[r].root)
            /\ \A w \in wrappers[r] :
                  IsLocal(w.span) =>
                      /\ TraceOf(w.span) = RootOf(r).trace
                      /\ \E i \in SpansOfRequest(r) : ParentOf(w.span) = SpanID(i)
                      /\ \A q \in Requests : \A j \in SpansOfRequest(q) :
                            q # r => (w.span[2] # j /\ ParentOf(w.span) # SpanID(j)))
    /\ [][\A r \in Requests :
            /\ req[r].pc # "Idle" => req'[r].ctx = req[r].ctx
            /\ wrappers[r] \subseteq wrappers'[r]]_vars

C24_Witness ==
    /\ \A r \in Requests : req[r].pc = "HandlerInvoked"
    /\ \E w \in wrappers[1] :
          /\ IsLocal(w.span)
          /\ w.span[2] > req[2].root
          /\ ParentOf(w.span) = SpanID(req[1].root)
          /\ TraceOf(w.span) # RootOf(2).trace

TimesExported(i) == Cardinality({k \in 1..Len(exported) : exported[k].id = i})

\* C25: whatever the interleaving of End calls and flushes, when a
\* Shutdown call has returned nil every span ended before the call has
\* reached the exporter exactly once, and no span ever reaches it twice.
C25_ExactlyOnceByShutdown ==
    /\ \A i \in 1..Len(spans) : TimesExported(i) <= 1
    /\ \A c \in 1..Len(shut) :
          (shut[c].on = "provider" /\ shut[c].res = "nil") =>
              \A i \in shut[c].before : TimesExported(i) = 1

\* C26: what the exporter is handed, by a batch flush or by Shutdown, and
\* what waits in the batch buffer, is ended spans only: a span whose End
\* was never called is in neither.
C26_OnlyEndedExported ==
    \A k \in 1..Len(Pipeline) :
        /\ spans[Pipeline[k].id].ended
        /\ Pipeline[k].span.ended

C26_Witness ==
    /\ shut # <<>>
    /\ shut[1].res = "nil"
    /\ exported # <<>>
    /\ \E i \in 1..Len(spans) : ~spans[i].ended /\ TimesExported(i) = 0
    /\ \A r \in Requests : req[r].pc # "HandlerInvoked"

\* C27: a NewProvider call constructs one exporter: the console exporter
\* when UseStdout is set, whatever endpoint, security and headers say,
\* otherwise the network exporter for the configured endpoint, plaintext
\* exactly when Insecure is set, with the configured headers.
C27_ExporterSelection ==
    \A k \in 1..Len(calls) :
        (calls[k].op = "NewProvider" /\ calls[k].cfg.exporter = "ok") =>
            LET cfg == calls[k].cfg
                made == calls[k].res.made
            IN  /\ Len(made) = 1
                /\ cfg.UseStdout =>
                      /\ made[1].kind = "stdout"
                      /\ made[1].endpoint = NoValue
                      /\ made[1].headers = <<>>
                /\ ~cfg.UseStdout =>
                      /\ made[1].kind = "otlp-grpc"
                      /\ made[1].endpoint = cfg.OTLPEndpoint
                      /\ made[1].insecure = cfg.Insecure
                      /\ made[1].headers = cfg.Headers

C27_Witness ==
    /\ Len(calls) = 2
    /\ calls[1].cfg.UseStdout /\ calls[1].cfg.Headers # <<>> /\ calls[1].cfg.Insecure
    /\ calls[1].res.made[1].kind = "stdout"
    /\ ~calls[2].cfg.UseStdout /\ ~calls[2].cfg.Insecure /\ calls[2].cfg.Headers # <<>>
    /\ calls[2].cfg.OTLPEndpoint = "collector:4317"
    /\ calls[2].res.made[1].kind = "otlp-grpc"
    /\ ~calls[2].res.made[1].insecure

\* C29: a span created by Start from a context that carries the tracer name
\* and no active span is a recording root span of the provider's pipeline,
\* so that ending it enqueues it for export.
C29_StartWithoutActiveSpanRecords ==
    \A r \in Requests : \A w \in wrappers[r] :
        (w.from.cur = NoopSpan /\ w.from.name # NoValue) =>
            /\ IsLocal(w.span)
            /\ spans[w.span[2]].parent = ZeroID

\* the spans stored by StoreSpan calls before the last one
StoredEarlier == {storeLog[i].v : i \in 1..(Len(storeLog) - 1)}

\* C30: after any sequence of StoreSpan calls on a context, GetTraceID and
\* GetSpanID give the identifiers of the span GetTraceSpan returns, the one
\* stored last, and never those of a span stored earlier.
C30_IdsOfLatestSpan ==
    storeLog # <<>> =>
        LET got == GetTraceSpan(store)
            sc == SpanContextOf(spans, got[1])
        IN  /\ got = <<storeLog[Len(storeLog)].v, TRUE>>
            /\ IsValid(sc) =>
                  /\ GetTraceID(store) = IDString(sc.trace)
                  /\ GetSpanID(store) = IDString(sc.span)
            /\ ~IsValid(sc) =>
                  \A e \in StoredEarlier :
                      GetSpanID(store) # IDString(SpanContextOf(spans, e).span)

====
